---- MODULE Spec2Model ----
(***************************************************************************)
(* Search-state / fetch coordination of the movie search page              *)
(* (src/src/App.jsx): the App component's state, the debounced search      *)
(* term, the effect that starts a fetch and the asynchronous fetchMovies   *)
(* function with its two suspension points (fetch, response.json).         *)
(***************************************************************************)
EXTENDS Integers, Sequences, FiniteSets, Bags, TLC

(* ---------------- bounds of the model ---------------- *)

\* number of fetchMovies calls that may be in flight at the same time
MaxInFlight == 2

\* texts the user may have in the search box
Terms == {"", "a", "ab"}

\* amounts of time (ms) that may pass between two events
Steps == {250, 500}

\* result arrays the provider may return (movies abbreviated to their id)
ResultSets == {<<>>, <<1, 2>>, <<2, 1>>}

\* longest query handed to fetchMovies in a direct call
MaxQueryLen == 3

\* characters of those queries ("U+00E9" stands for the one character e-acute)
Chars == {"a", "Z", "7", "-", " ", "&", "/", "U+00E9"}

\* largest vote_average of a movie record, in thousandths
MaxVote == 10000

(* ---------------- program constants ---------------- *)

\* useDebounce(searchTerm, 500)
DebounceDelay == 500

GenericError == "Error fetching movies. Please Try Again."

DefaultApiError == "Failed to fetch movies"

(* ---------------- values ---------------- *)

\* a JavaScript property that is missing from an object
Undefined == "<undefined>"

\* optional array: <<>> is a missing field, <<r>> a field holding array r
None == <<>>

Some(x) == <<x>>

\* parsed response bodies: the legacy response/Error pair and results
Body(response, Error, results) ==
  [response |-> response, Error |-> Error, results |-> results]

Bodies ==
  {Body(Undefined, Undefined, r) : r \in {None} \cup {Some(x) : x \in ResultSets}}
  \cup {Body("True", Undefined, Some(<<1, 2>>))}
  \cup {Body("False", e, r) : e \in {Undefined, "", "boom"},
                              r \in {None, Some(<<1, 2>>)}}

NoBody == [response |-> Undefined, Error |-> Undefined, results |-> None]

\* a fetchMovies call suspended at an await: pc "fetch" at await fetch(...),
\* pc "json" at await response.json()
Req(pc, query) == [pc |-> pc, query |-> query]

NoReq == Req("none", "")

\* no function has been called directly
NoCall == [op |-> "none"]

VARIABLES
  searchTerm,           \* useState("")
  errorMessage,         \* useState("")
  isLoading,            \* useState(false)
  movieList,            \* useState([])
  debouncedSearchTerm,  \* state held by useDebounce
  pendingValue,         \* argument of the last debounced(value) call
  timer,                \* ms left on the debounce timer, or NoTimer
  quiet,                \* ms since searchTerm last changed (capped)
  effectDep,            \* dependency the effect last ran with (None: never)
  requests,             \* bag of the fetchMovies calls in flight
  last,                 \* history: the step that was just taken
  lastSettle,           \* history: outcome of the most recent settlement
  burstEmits,           \* history: emissions since the current burst began
  superseded,           \* history: a change of the current burst replaced
                        \* a value that was still waiting for the timer
  fetchDebt,            \* history: 1 + changes of debouncedSearchTerm
                        \* - fetches started
  recReq,               \* history: the fetch started by a change typed while
                        \* the page showed an error, while it is in flight
  call                  \* direct calls of the functions (call harness only)

vars == <<searchTerm, errorMessage, isLoading, movieList, debouncedSearchTerm,
          pendingValue, timer, quiet, effectDep, requests, last, lastSettle,
          burstEmits, superseded, fetchDebt, recReq, call>>

NoTimer == -1

appState == <<errorMessage, isLoading, movieList>>

debState ==
  <<debouncedSearchTerm, pendingValue, timer, quiet, burstEmits, superseded>>

(* ---------------- pure helpers ---------------- *)

Min(a, b) == IF a < b THEN a ELSE b

Max(a, b) == IF a > b THEN a ELSE b

\* JavaScript truthiness of an optional string
Truthy(s) == s \notin {Undefined, ""}

\* data.Error || 'Failed to fetch movies'
ApiErrorText(data) == IF Truthy(data.Error) THEN data.Error ELSE DefaultApiError

\* data.results || []
ResultsOrEmpty(data) == IF data.results = None THEN <<>> ELSE data.results[1]

\* data.response == 'False'
InlineFailure(data) == data.response = "False"

Step(op, req, ok, data) == [op |-> op, req |-> req, ok |-> ok, data |-> data]

Settle(kind, results) == [kind |-> kind, results |-> results]

\* mutant: the effect has no dependency array and is due after every render
EffectPending_EveryRender ==
  effectDep = <<>> \/ last.op \notin {"effect", "tick"}

\* the effect has not yet run for the current dependency value
EffectPending == effectDep # Some(debouncedSearchTerm)

\* mutant: the rendering has no spinner branch
View_NoSpinnerBranch == IF errorMessage # "" THEN "error" ELSE "list"

\* mutant: the rendering has no error branch
View_NoErrorBranch == IF isLoading THEN "spinner" ELSE "list"

\* what the conditional rendering shows
View ==
  IF isLoading THEN "spinner"
  ELSE IF errorMessage # "" THEN "error"
  ELSE "list"

\* the cards on screen
ShownCards == IF View = "list" THEN movieList ELSE <<>>

(* ---------------- pure functions ---------------- *)

API_BASE_URL == "https://api.themoviedb.org/3"

\* characters encodeURIComponent leaves alone
Unreserved ==
  {"a", "Z", "7", "-", "_", ".", "!", "~", "*", "'", "(", ")"}

\* UTF-8 bytes of the other characters of the model
Utf8(c) ==
  CASE c = " " -> <<32>>
    [] c = "&" -> <<38>>
    [] c = "/" -> <<47>>
    [] c = "U+00E9" -> <<195, 169>>

HexDigit(n) ==
  <<"0", "1", "2", "3", "4", "5", "6", "7", "8", "9",
    "A", "B", "C", "D", "E", "F">>[n + 1]

\* %XX of one byte
PercentByte(b) == <<"%", HexDigit(b \div 16), HexDigit(b % 16)>>

RECURSIVE PercentBytes(_)
PercentBytes(bytes) ==
  IF bytes = <<>> THEN <<>>
  ELSE PercentByte(Head(bytes)) \o PercentBytes(Tail(bytes))

RECURSIVE EncodeURIComponent(_)
EncodeURIComponent(q) ==
  IF q = <<>> THEN <<>>
  ELSE (IF Head(q) \in Unreserved THEN <<Head(q)>>
        ELSE PercentBytes(Utf8(Head(q))))
       \o EncodeURIComponent(Tail(q))

\* mutant: the query is put into the URL as typed
Endpoint_NoEncoding(arg) ==
  LET query == IF arg = None THEN <<>> ELSE arg[1]
  IN  IF query # <<>>
      THEN <<API_BASE_URL, "/search/movie?query=">> \o query
      ELSE <<API_BASE_URL, "/discover/movie?sort_by=popularity.desc">>

\* the endpoint fetchMovies requests for its optional argument (query = '')
Endpoint(arg) ==
  LET query == IF arg = None THEN <<>> ELSE arg[1]
  IN  IF query # <<>>
      THEN <<API_BASE_URL, "/search/movie?query=">>
           \o EncodeURIComponent(query)
      ELSE <<API_BASE_URL, "/discover/movie?sort_by=popularity.desc">>

Digit(n) == <<"0", "1", "2", "3", "4", "5", "6", "7", "8", "9">>[n + 1]

\* decimal digits of a natural number
RECURSIVE DecStr(_)
DecStr(n) ==
  IF n < 10 THEN <<Digit(n)>> ELSE DecStr(n \div 10) \o <<Digit(n % 10)>>

\* x.toFixed(1) of the number x / 1000, for x that is not half-way between
\* two tenths
ToFixed1(x) ==
  LET n == (x + 50) \div 100
  IN  DecStr(n \div 10) \o <<".">> \o <<Digit(n % 10)>>

\* MovieCard: vote_average ? vote_average.toFixed(1) : 'N/A'
Rating(vote) ==
  IF vote # None /\ vote[1] # 0 THEN ToFixed1(vote[1]) ELSE <<"N", "/", "A">>

(* ---------------- initial state ---------------- *)

Init ==
  /\ searchTerm = ""
  /\ errorMessage = ""
  /\ isLoading = FALSE
  /\ movieList = <<>>
  /\ debouncedSearchTerm = ""
  /\ pendingValue = ""
  /\ timer = NoTimer
  /\ quiet = DebounceDelay
  /\ effectDep = None
  /\ requests = EmptyBag
  /\ last = Step("init", NoReq, TRUE, NoBody)
  /\ lastSettle = Settle("none", <<>>)
  /\ burstEmits = 0
  /\ superseded = FALSE
  /\ fetchDebt = 1
  /\ recReq = NoReq
  /\ call = NoCall

(* ---------------- the search box and the debouncer ---------------- *)

\* mutant: a change made while the timer runs does not restart it
DebounceCall_NoRestart(v) ==
  /\ pendingValue' = v
  /\ timer' = IF timer = NoTimer THEN DebounceDelay ELSE timer
  /\ UNCHANGED debouncedSearchTerm

\* mutant: leading-edge debounce, the first change of a burst is published
\* at once
DebounceCall_LeadingEdge(v) ==
  /\ pendingValue' = v
  /\ timer' = DebounceDelay
  /\ debouncedSearchTerm' = IF timer = NoTimer THEN v ELSE debouncedSearchTerm

\* mutant: the debouncer queues the first value of a burst instead of
\* replacing it with the latest
DebounceCall_KeepFirst(v) ==
  /\ pendingValue' = IF timer = NoTimer THEN v ELSE pendingValue
  /\ timer' = DebounceDelay
  /\ UNCHANGED debouncedSearchTerm

\* useDebounce(searchTerm, 500) rendered with a changed value: the value
\* becomes the pending one and the timer restarts (trailing edge only)
DebounceCall(v) ==
  /\ pendingValue' = v
  /\ timer' = DebounceDelay
  /\ UNCHANGED debouncedSearchTerm

\* mutant: typing also empties the result list
Keystroke_ClearsList(v) ==
  /\ effectDep # None
  /\ v # searchTerm
  /\ searchTerm' = v
  /\ DebounceCall(v)
  /\ quiet' = 0
  /\ movieList' = <<>>
  /\ burstEmits' = IF quiet >= DebounceDelay THEN 0 ELSE burstEmits
  /\ superseded' = (quiet < DebounceDelay)
  /\ last' = Step("keystroke", Req("none", v), TRUE, NoBody)
  /\ UNCHANGED <<errorMessage, isLoading, effectDep, requests, lastSettle,
                 fetchDebt, recReq, call>>

\* onChange: setSearchTerm(event.target.value), on the mounted page; the
\* re-render hands the new value to the debouncer
Keystroke(v) ==
  /\ effectDep # None
  /\ v # searchTerm
  /\ searchTerm' = v
  /\ DebounceCall(v)
  /\ quiet' = 0
  /\ burstEmits' = IF quiet >= DebounceDelay THEN 0 ELSE burstEmits
  /\ superseded' = (quiet < DebounceDelay)
  /\ last' = Step("keystroke", Req("none", v), TRUE, NoBody)
  /\ UNCHANGED <<appState, effectDep, requests, lastSettle, fetchDebt,
                 recReq, call>>

\* Keystroke, with the history of error recovery: a change typed while the
\* page shows an error is remembered until its debounced change
KeystrokeTracked(v) ==
  /\ effectDep # None
  /\ v # searchTerm
  /\ searchTerm' = v
  /\ DebounceCall(v)
  /\ quiet' = 0
  /\ burstEmits' = IF quiet >= DebounceDelay THEN 0 ELSE burstEmits
  /\ superseded' = (quiet < DebounceDelay)
  /\ last' = Step("keystroke", Req("none", v), TRUE, NoBody)
  /\ recReq' = IF errorMessage # "" /\ ~isLoading THEN Req("typed", v)
               ELSE IF recReq.pc = "typed" THEN NoReq
               ELSE recReq
  /\ UNCHANGED <<appState, effectDep, requests, lastSettle, fetchDebt, call>>

\* d ms pass without an event
Tick(d) ==
  /\ quiet < DebounceDelay
  /\ quiet' = Min(DebounceDelay, quiet + d)
  /\ timer' = IF timer = NoTimer THEN NoTimer ELSE Max(0, timer - d)
  /\ last' = Step("tick", NoReq, TRUE, NoBody)
  /\ UNCHANGED <<searchTerm, appState, debouncedSearchTerm, pendingValue,
                 effectDep, requests, lastSettle, burstEmits, superseded,
                 fetchDebt, recReq, call>>

\* mutant: the expired timer is cleared without publishing the pending value
TimerFire_DropsValue ==
  /\ timer = 0
  /\ ~EffectPending
  /\ timer' = NoTimer
  /\ last' = Step("timer", NoReq, TRUE, NoBody)
  /\ UNCHANGED <<searchTerm, appState, debouncedSearchTerm, pendingValue,
                 quiet, effectDep, requests, lastSettle, burstEmits,
                 superseded, fetchDebt, recReq, call>>

\* the debounce timer expires: the debouncer publishes the pending value
TimerFire ==
  /\ timer = 0
  /\ ~EffectPending
  /\ debouncedSearchTerm' = pendingValue
  /\ timer' = NoTimer
  /\ burstEmits' = IF pendingValue # debouncedSearchTerm
                   THEN burstEmits + 1 ELSE burstEmits
  /\ fetchDebt' = IF pendingValue # debouncedSearchTerm
                  THEN fetchDebt + 1 ELSE fetchDebt
  /\ last' = Step("timer", NoReq, TRUE, NoBody)
  /\ UNCHANGED <<searchTerm, appState, pendingValue, quiet, effectDep,
                 requests, lastSettle, superseded, recReq, call>>

(* ---------------- fetchMovies ---------------- *)

InFlight == BagToSet(requests)

Add(r) == requests (+) SetToBag({r})

Remove(r) == requests (-) SetToBag({r})

\* history: where the tracked fetch stands after request r moved on to next
RecMoved(r, next) == IF r = recReq THEN next ELSE recReq

\* mutant: the effect passes the raw searchTerm to fetchMovies
RunEffect_RawTerm ==
  /\ EffectPending
  /\ BagCardinality(requests) < MaxInFlight
  /\ isLoading' = TRUE
  /\ errorMessage' = ""
  /\ requests' = Add(Req("fetch", searchTerm))
  /\ effectDep' = Some(debouncedSearchTerm)
  /\ last' = Step("effect", Req("fetch", searchTerm), TRUE, NoBody)
  /\ fetchDebt' = fetchDebt - 1
  /\ UNCHANGED <<searchTerm, movieList, debState, lastSettle, recReq, call>>

\* useEffect(() => fetchMovies(debouncedSearchTerm), [debouncedSearchTerm]):
\* runs fetchMovies up to its first await
RunEffect ==
  /\ EffectPending
  /\ BagCardinality(requests) < MaxInFlight
  /\ isLoading' = TRUE
  /\ errorMessage' = ""
  /\ requests' = Add(Req("fetch", debouncedSearchTerm))
  /\ effectDep' = Some(debouncedSearchTerm)
  /\ last' = Step("effect", Req("fetch", debouncedSearchTerm), TRUE, NoBody)
  /\ fetchDebt' = fetchDebt - 1
  /\ UNCHANGED <<searchTerm, movieList, debState, lastSettle, recReq, call>>

\* RunEffect, with the history of error recovery: the fetch started by the
\* debounced change of a remembered keystroke becomes the tracked one
RunEffectTracked ==
  /\ EffectPending
  /\ BagCardinality(requests) < MaxInFlight
  /\ isLoading' = TRUE
  /\ errorMessage' = ""
  /\ requests' = Add(Req("fetch", debouncedSearchTerm))
  /\ effectDep' = Some(debouncedSearchTerm)
  /\ last' = Step("effect", Req("fetch", debouncedSearchTerm), TRUE, NoBody)
  /\ fetchDebt' = fetchDebt - 1
  /\ recReq' = IF recReq.pc = "typed" /\ timer = NoTimer
               THEN Req("fetch", debouncedSearchTerm) ELSE recReq
  /\ UNCHANGED <<searchTerm, movieList, debState, lastSettle, call>>

\* mutant: no finally block, the loading flag survives a failure
CatchFinally_NoFinally(r) ==
  /\ errorMessage' = GenericError
  /\ requests' = Remove(r)
  /\ UNCHANGED <<isLoading, movieList>>

\* catch (error) { setErrorMessage(...) } finally { setIsLoading(false) }
CatchFinally(r) ==
  /\ errorMessage' = GenericError
  /\ isLoading' = FALSE
  /\ requests' = Remove(r)
  /\ UNCHANGED movieList

\* await fetch(...) rejects: transport failure
FetchReject(r) ==
  /\ r.pc = "fetch"
  /\ CatchFinally(r)
  /\ last' = Step("fetchReject", r, FALSE, NoBody)
  /\ lastSettle' = Settle("networkError", <<>>)
  /\ recReq' = RecMoved(r, NoReq)
  /\ UNCHANGED <<searchTerm, debState, effectDep, fetchDebt, call>>

\* await fetch(...) resolves with a response whose ok flag is given
FetchResolve(r, ok) ==
  /\ r.pc = "fetch"
  /\ IF ok
     THEN /\ requests' = Remove(r) (+) SetToBag({Req("json", r.query)})
          /\ UNCHANGED <<appState, lastSettle>>
     ELSE /\ CatchFinally(r)
          /\ lastSettle' = Settle("httpError", <<>>)
  /\ last' = Step("fetchResolve", r, ok, NoBody)
  /\ recReq' = RecMoved(r, IF ok THEN Req("json", r.query) ELSE NoReq)
  /\ UNCHANGED <<searchTerm, debState, effectDep, fetchDebt, call>>

\* await response.json() rejects: the body is not JSON
JsonReject(r) ==
  /\ r.pc = "json"
  /\ CatchFinally(r)
  /\ last' = Step("jsonReject", r, TRUE, NoBody)
  /\ lastSettle' = Settle("parseError", <<>>)
  /\ recReq' = RecMoved(r, NoReq)
  /\ UNCHANGED <<searchTerm, debState, effectDep, fetchDebt, call>>

\* mutant: the inline-failure branch does not clear the list
JsonResolve_KeepList(r, data) ==
  /\ r.pc = "json"
  /\ IF InlineFailure(data)
     THEN /\ errorMessage' = ApiErrorText(data)
          /\ lastSettle' = Settle("apiError", <<>>)
          /\ UNCHANGED movieList
     ELSE /\ movieList' = ResultsOrEmpty(data)
          /\ lastSettle' = Settle("success", ResultsOrEmpty(data))
          /\ UNCHANGED errorMessage
  /\ isLoading' = FALSE
  /\ requests' = Remove(r)
  /\ last' = Step("jsonResolve", r, TRUE, data)
  /\ recReq' = RecMoved(r, NoReq)
  /\ UNCHANGED <<searchTerm, debState, effectDep, fetchDebt, call>>

\* mutant: the results are appended to the list instead of replacing it
JsonResolve_Append(r, data) ==
  /\ r.pc = "json"
  /\ IF InlineFailure(data)
     THEN /\ errorMessage' = ApiErrorText(data)
          /\ movieList' = <<>>
          /\ lastSettle' = Settle("apiError", <<>>)
     ELSE /\ movieList' = movieList \o ResultsOrEmpty(data)
          /\ lastSettle' = Settle("success", ResultsOrEmpty(data))
          /\ UNCHANGED errorMessage
  /\ isLoading' = FALSE
  /\ requests' = Remove(r)
  /\ last' = Step("jsonResolve", r, TRUE, data)
  /\ recReq' = RecMoved(r, NoReq)
  /\ UNCHANGED <<searchTerm, debState, effectDep, fetchDebt, call>>

\* mutant: a response to a query that is no longer the debounced one is
\* discarded
JsonResolve_DropStale(r, data) ==
  /\ r.pc = "json"
  /\ IF r.query # debouncedSearchTerm
     THEN /\ lastSettle' = Settle("stale", <<>>)
          /\ UNCHANGED <<errorMessage, movieList>>
     ELSE IF InlineFailure(data)
     THEN /\ errorMessage' = ApiErrorText(data)
          /\ movieList' = <<>>
          /\ lastSettle' = Settle("apiError", <<>>)
     ELSE /\ movieList' = ResultsOrEmpty(data)
          /\ lastSettle' = Settle("success", ResultsOrEmpty(data))
          /\ UNCHANGED errorMessage
  /\ isLoading' = FALSE
  /\ requests' = Remove(r)
  /\ last' = Step("jsonResolve", r, TRUE, data)
  /\ recReq' = RecMoved(r, NoReq)
  /\ UNCHANGED <<searchTerm, debState, effectDep, fetchDebt, call>>

\* await response.json() resolves with the parsed body
JsonResolve(r, data) ==
  /\ r.pc = "json"
  /\ IF InlineFailure(data)
     THEN /\ errorMessage' = ApiErrorText(data)
          /\ movieList' = <<>>
          /\ lastSettle' = Settle("apiError", <<>>)
     ELSE /\ movieList' = ResultsOrEmpty(data)
          /\ lastSettle' = Settle("success", ResultsOrEmpty(data))
          /\ UNCHANGED errorMessage
  /\ isLoading' = FALSE
  /\ requests' = Remove(r)
  /\ last' = Step("jsonResolve", r, TRUE, data)
  /\ recReq' = RecMoved(r, NoReq)
  /\ UNCHANGED <<searchTerm, debState, effectDep, fetchDebt, call>>

Next ==
  \/ \E v \in Terms : Keystroke(v)
  \/ \E d \in Steps : Tick(d)
  \/ TimerFire
  \/ RunEffect
  \/ \E r \in InFlight : FetchReject(r)
  \/ \E r \in InFlight, ok \in BOOLEAN : FetchResolve(r, ok)
  \/ \E r \in InFlight : JsonReject(r)
  \/ \E r \in InFlight, data \in Bodies : JsonResolve(r, data)

Spec == Init /\ [][Next]_vars

\* the same page, observed with the history of error recovery
NextRecovery ==
  \/ \E v \in Terms : KeystrokeTracked(v)
  \/ \E d \in Steps : Tick(d)
  \/ TimerFire
  \/ RunEffectTracked
  \/ \E r \in InFlight : FetchReject(r)
  \/ \E r \in InFlight, ok \in BOOLEAN : FetchResolve(r, ok)
  \/ \E r \in InFlight : JsonReject(r)
  \/ \E r \in InFlight, data \in Bodies : JsonResolve(r, data)

SpecRecovery == Init /\ [][NextRecovery]_vars

(* ---------------- direct calls of the pure functions ---------------- *)

pageVars ==
  <<searchTerm, errorMessage, isLoading, movieList, debouncedSearchTerm,
    pendingValue, timer, quiet, effectDep, requests, last, lastSettle,
    burstEmits, superseded, fetchDebt, recReq>>

RECURSIVE QueriesOfLen(_)
QueriesOfLen(n) ==
  IF n = 0 THEN {<<>>}
  ELSE {<<c>> \o q : c \in Chars, q \in QueriesOfLen(n - 1)}

Queries == UNION {QueriesOfLen(n) : n \in 0 .. MaxQueryLen}

\* vote averages whose toFixed(1) does not hang on the binary rounding of a
\* half-way value
Votes == {x \in 0 .. MaxVote : x % 100 # 50}

\* fetchMovies(arg) up to the URL it requests
CallEndpoint(arg) ==
  /\ call = NoCall
  /\ call' = [op |-> "endpoint", arg |-> arg, out |-> Endpoint(arg)]
  /\ UNCHANGED pageVars

\* a MovieCard rendered for a record with the given vote_average
CallRating(vote) ==
  /\ call = NoCall
  /\ call' = [op |-> "rating", arg |-> vote, out |-> Rating(vote)]
  /\ UNCHANGED pageVars

NextCalls ==
  \/ \E arg \in {None} \cup {Some(q) : q \in Queries} : CallEndpoint(arg)
  \/ \E vote \in {None} \cup {Some(x) : x \in Votes} : CallRating(vote)

SpecCalls == Init /\ [][NextCalls]_vars

(* ---------------- fetchMovies called twice for one query ---------------- *)

\* what the provider answers to a request
Responses ==
  {[kind |-> k, data |-> NoBody] : k \in {"reject", "notOk", "badJson"}}
  \cup {[kind |-> "body", data |-> b] : b \in Bodies}

\* the provider answers the query q with rsp, every time
SetProvider(q, rsp) ==
  /\ call = NoCall
  /\ call' = [op |-> "provider", query |-> q, resp |-> rsp, calls |-> 0,
              first |-> <<>>]
  /\ UNCHANGED pageVars

\* fetchMovies(query) called once the previous call has settled, up to its
\* first await; the list the previous call left is remembered
CallFetchMovies ==
  /\ call.op = "provider"
  /\ call.calls < 2
  /\ requests = EmptyBag
  /\ isLoading' = TRUE
  /\ errorMessage' = ""
  /\ requests' = Add(Req("fetch", call.query))
  /\ last' = Step("call", Req("fetch", call.query), TRUE, NoBody)
  /\ call' = [call EXCEPT !.calls = @ + 1, !.first = movieList]
  /\ UNCHANGED <<searchTerm, movieList, debState, effectDep, lastSettle,
                 fetchDebt, recReq>>

\* the provider's answer reaches the call suspended at r
ProviderResponds(r) ==
  /\ call.op = "provider"
  /\ IF r.pc = "fetch"
     THEN CASE call.resp.kind = "reject" -> FetchReject(r)
            [] call.resp.kind = "notOk" -> FetchResolve(r, FALSE)
            [] OTHER -> FetchResolve(r, TRUE)
     ELSE CASE call.resp.kind = "badJson" -> JsonReject(r)
            [] OTHER -> JsonResolve(r, call.resp.data)

NextRefetch ==
  \/ \E q \in Terms, rsp \in Responses : SetProvider(q, rsp)
  \/ CallFetchMovies
  \/ \E r \in InFlight : ProviderResponds(r)

SpecRefetch == Init /\ [][NextRefetch]_vars

(* ---------------- the page once the user stops typing ---------------- *)

Idle == [op |-> "idle"]

\* the user types while they have not stopped
KeystrokeWhileTyping(v) ==
  /\ call = NoCall
  /\ Keystroke(v)

\* the user stops typing: no further change event reaches the input
StopTyping ==
  /\ call = NoCall
  /\ call' = Idle
  /\ UNCHANGED pageVars

\* time passes
TimePasses == \E d \in Steps : Tick(d)

\* a suspended call of fetchMovies is resumed by its response
Settles ==
  \/ \E r \in InFlight : FetchReject(r)
  \/ \E r \in InFlight, ok \in BOOLEAN : FetchResolve(r, ok)
  \/ \E r \in InFlight : JsonReject(r)
  \/ \E r \in InFlight, data \in Bodies : JsonResolve(r, data)

\* the input is cleared or filled by a paste
PastedTerms == {"", "ab"}

NextQuiesce ==
  \/ \E v \in PastedTerms : KeystrokeWhileTyping(v)
  \/ StopTyping
  \/ TimePasses
  \/ TimerFire
  \/ RunEffect
  \/ Settles

\* time passes, expired timers fire, React runs a due effect, and every
\* request is answered
FairQuiesce ==
  /\ WF_vars(TimePasses)
  /\ WF_vars(TimerFire)
  /\ WF_vars(RunEffect)
  /\ WF_vars(Settles)

SpecQuiesce == Init /\ [][NextQuiesce]_vars /\ FairQuiesce

TypeOK ==
  /\ searchTerm \in Terms
  /\ debouncedSearchTerm \in Terms
  /\ pendingValue \in Terms
  /\ isLoading \in BOOLEAN
  /\ errorMessage \in {"", GenericError, DefaultApiError, "boom"}
  /\ movieList \in ResultSets
  /\ timer \in {NoTimer} \cup 0 .. DebounceDelay
  /\ quiet \in 0 .. DebounceDelay
  /\ IsABag(requests)
  /\ BagCardinality(requests) <= MaxInFlight
  /\ \A r \in InFlight : r.pc \in {"fetch", "json"} /\ r.query \in Terms
  /\ fetchDebt \in {0, 1}
  /\ recReq.pc \in {"none", "typed"} \/ BagIn(recReq, requests)

(* ======================= claims ======================= *)

\* the step just taken settled a fetchMovies call
SettledNow ==
  \/ last.op \in {"fetchReject", "jsonReject", "jsonResolve"}
  \/ last.op = "fetchResolve" /\ ~last.ok

OthersInFlight == InFlight # {}

\* C1: right after a fetch settles with a 2xx response that carries no inline
\* failure flag and results R, movieList = R, errorMessage is empty and
\* isLoading is false, whatever other fetches started or settled meanwhile.
C1_SuccessGivesSuccessStatus ==
  (last.op = "jsonResolve" /\ last.data.response # "False"
     /\ last.data.results # None)
  => /\ movieList = last.data.results[1]
     /\ errorMessage = ""
     /\ isLoading = FALSE

\* C2: right after a fetch settles with a non-2xx response, errorMessage is
\* the generic fetch-failure text and movieList is empty.
C2_HttpErrorClearsList ==
  (last.op = "fetchResolve" /\ ~last.ok)
  => /\ errorMessage = "Error fetching movies. Please Try Again."
     /\ movieList = <<>>

\* C3: whenever errorMessage is non-empty movieList is empty, and movieList
\* (empty at the start) only ever changes by a settling fetch replacing it
\* with that fetch's results or with the empty list.
C3_ListEmptyOnError ==
  /\ [](errorMessage # "" => movieList = <<>>)
  /\ [][movieList' # movieList =>
          /\ last'.op = "jsonResolve"
          /\ \/ movieList' = <<>>
             \/ /\ last'.data.results # None
                /\ movieList' = last'.data.results[1]]_vars

\* C4: whenever the movie cards are what the page renders, isLoading is false,
\* errorMessage is empty and the list rendered is the one the most recent
\* settlement delivered (the empty initial list before any settlement): the
\* page never shows a left-over list together with a loading or error status.
C4_ShownListMatchesStatus ==
  View = "list"
  => /\ isLoading = FALSE
     /\ errorMessage = ""
     /\ ShownCards = movieList
     /\ IF lastSettle.kind = "none"
        THEN movieList = <<>>
        ELSE lastSettle.kind = "success" /\ movieList = lastSettle.results

C4_Witness ==
  /\ View = "list"
  /\ movieList # <<>>
  /\ lastSettle.kind = "success"
  /\ OthersInFlight

\* the timer counts the quiet period down from the last change, and once it
\* has run the debounced value is the current one
TimerTracksQuiet ==
  /\ quiet < DebounceDelay => timer = DebounceDelay - quiet
  /\ quiet >= DebounceDelay => timer \in {0, NoTimer}
  /\ timer = NoTimer => debouncedSearchTerm = searchTerm

\* C5: the first step of the mounted page runs the effect, every change of
\* debouncedSearchTerm makes the effect due again, and the step that runs it
\* sets isLoading, clears errorMessage and issues one request whose query is
\* the debounced value.
C5_EffectStartsFetch ==
  [][/\ effectDep = None => last'.op = "effect"
     /\ debouncedSearchTerm' # debouncedSearchTerm => EffectPending'
     /\ (EffectPending /\ ~EffectPending')
        => /\ isLoading' = TRUE
           /\ errorMessage' = ""
           /\ debouncedSearchTerm' = debouncedSearchTerm
           /\ requests' = requests (+) SetToBag({last'.req})
           /\ last'.req = [pc |-> "fetch", query |-> debouncedSearchTerm]
    ]_vars

C5_Witness ==
  /\ last.op = "effect"
  /\ last.req.query = "a"
  /\ searchTerm = "ab"
  /\ isLoading
  /\ BagCardinality(requests) = 2

\* C6: within a burst of changes, each less than the quiet period after the
\* previous one, debouncedSearchTerm changes at most once, only after the
\* burst has ended, and then to the last value of the burst.
C6_OneEmissionPerBurst ==
  /\ burstEmits <= 1
  /\ quiet < DebounceDelay => burstEmits = 0
  /\ burstEmits = 1 => debouncedSearchTerm = searchTerm

C6_Witness ==
  /\ superseded
  /\ burstEmits = 1
  /\ last.op = "timer"

\* C7: every change restarts the timer, so debouncedSearchTerm changes only
\* in a step that leaves a full quiet period elapsed since the last change
\* (never at the change itself), and once the quiet period has elapsed and
\* the timer has run debouncedSearchTerm equals searchTerm.
C7_TrailingEdgeTiming ==
  [][/\ TimerTracksQuiet /\ TimerTracksQuiet'
     /\ debouncedSearchTerm' # debouncedSearchTerm
        => quiet' >= DebounceDelay /\ timer' = NoTimer
    ]_vars

C7_Witness ==
  /\ last.op = "timer"
  /\ ~superseded
  /\ burstEmits = 1
  /\ quiet = DebounceDelay
  /\ debouncedSearchTerm = "a"

\* C8: whenever debouncedSearchTerm changes, its new value is the current
\* searchTerm, never a value searchTerm held before its latest change.
C8_NoStaleEmission ==
  [][debouncedSearchTerm' # debouncedSearchTerm
       => debouncedSearchTerm' = searchTerm']_vars

C8_Witness ==
  /\ last.op = "timer"
  /\ superseded
  /\ burstEmits = 1
  /\ debouncedSearchTerm = "ab"
  /\ effectDep = Some("")

\* C9: right after a fetch settles with a 2xx response whose body carries the
\* inline failure flag, errorMessage is the body's Error message (the default
\* text when it carries none), movieList is empty and isLoading is false.
C9_InlineFailure ==
  (last.op = "jsonResolve" /\ last.data.response = "False")
  => /\ errorMessage = IF last.data.Error = "boom"
                       THEN "boom" ELSE "Failed to fetch movies"
     /\ movieList = <<>>
     /\ isLoading = FALSE

C9_Witness ==
  /\ last.op = "jsonResolve"
  /\ last.data.response = "False"
  /\ last.data.Error = "boom"
  /\ errorMessage = "boom"
  /\ OthersInFlight

\* C10: immediately after any fetch settles (success, inline failure, non-2xx
\* status or a thrown error) isLoading is false.
C10_LoadingCleared == SettledNow => isLoading = FALSE

C10_Witness ==
  /\ last.op = "fetchReject"
  /\ OthersInFlight
  /\ isLoading = FALSE

\* C11: a fetch in flight is never cancelled by typing, by the debouncer or
\* by the start of a newer fetch, and every fetch applies its outcome when it
\* settles, whatever query it was for: the list is that of whichever fetch
\* settled last, also when that is an older query than the debounced one.
C11_NoCancelLastSettlerWins ==
  [][/\ last'.op \in {"keystroke", "tick", "timer", "effect"}
        => \A r \in InFlight : CopiesIn(r, requests') >= CopiesIn(r, requests)
     /\ (last'.op = "jsonResolve" /\ last'.data.response # "False")
        => movieList' = (IF last'.data.results = <<>>
                         THEN <<>> ELSE last'.data.results[1])
     /\ (last'.op \in {"fetchReject", "jsonReject"}
         \/ (last'.op = "fetchResolve" /\ ~last'.ok))
        => errorMessage' = "Error fetching movies. Please Try Again."
    ]_vars

C11_Witness ==
  /\ requests = EmptyBag
  /\ ~EffectPending
  /\ last.op = "jsonResolve"
  /\ last.data.response # "False"
  /\ last.req.query # debouncedSearchTerm
  /\ movieList # <<>>
  /\ View = "list"

\* C12: the number of fetches started never exceeds one (mount) plus the
\* number of changes of debouncedSearchTerm and equals it whenever no effect
\* is due; so keystrokes that end up not changing debouncedSearchTerm and
\* the state updates of a settling fetch start no fetch.
C12_OneFetchPerChange ==
  /\ fetchDebt \in {0, 1}
  /\ fetchDebt = 0 <=> effectDep = <<debouncedSearchTerm>>

C12_Witness ==
  /\ last.op = "timer"
  /\ superseded
  /\ burstEmits = 0
  /\ fetchDebt = 0
  /\ lastSettle.kind # "none"
  /\ requests = EmptyBag

\* C13: when a fetch that was started by a debounced change while the page
\* showed an error settles successfully with results R, the page shows the
\* list R: isLoading false, errorMessage empty, movieList = R.
C13_RecoveryAfterError ==
  [][(/\ recReq # NoReq
      /\ last'.op = "jsonResolve"
      /\ last'.req = recReq
      /\ recReq' = NoReq
      /\ last'.data.response # "False"
      /\ last'.data.results # <<>>)
     => /\ isLoading' = FALSE
        /\ errorMessage' = ""
        /\ movieList' = last'.data.results[1]
    ]_vars

\* C15: a keystroke sets searchTerm to the field's new text at once and
\* leaves debouncedSearchTerm, isLoading, errorMessage and movieList as
\* they were.
C15_KeystrokeFrame ==
  [][last'.op = "keystroke"
       => /\ searchTerm' = last'.req.query
          /\ searchTerm' # searchTerm
          /\ UNCHANGED <<debouncedSearchTerm, isLoading, errorMessage,
                         movieList>>
    ]_vars

C15_Witness ==
  /\ last.op = "keystroke"
  /\ searchTerm = "ab"
  /\ debouncedSearchTerm = "a"
  /\ isLoading
  /\ movieList # <<>>

\* C18: right after a fetch settles with a 2xx response that has no inline
\* failure flag and no results field, movieList is the empty array, the
\* rendered list is empty and the status is success with no error message.
C18_MissingResultsGivesEmptyList ==
  (last.op = "jsonResolve" /\ last.data.response # "False"
     /\ last.data.results = <<>>)
  => /\ movieList = <<>>
     /\ isLoading = FALSE
     /\ errorMessage = ""
     /\ View = "list"

\* C19: isLoading is true if and only if at least one fetch has been started
\* and has not yet settled.
C19_LoadingTracksInFlight == isLoading <=> requests # EmptyBag

\* C20: the page shows exactly one of spinner, error text and movie cards:
\* the spinner whenever isLoading, the error text only when isLoading is
\* false and errorMessage is non-empty, the cards only when isLoading is
\* false and errorMessage is empty.
C20_ExclusiveView ==
  /\ View \in {"spinner", "error", "list"}
  /\ View = "spinner" <=> isLoading
  /\ View = "error" <=> (~isLoading /\ errorMessage # "")
  /\ View = "list" <=> (~isLoading /\ errorMessage = "")
  /\ ShownCards # <<>> => (~isLoading /\ errorMessage = "")

C20_Witness ==
  /\ View = "spinner"
  /\ movieList # <<>>
  /\ ShownCards = <<>>
  /\ BagCardinality(requests) = 2

\* percent-encoding of one character as the URL standard writes it
PercentEncoded(c) ==
  CASE c = " " -> <<"%", "2", "0">>
    [] c = "&" -> <<"%", "2", "6">>
    [] c = "/" -> <<"%", "2", "F">>
    [] c = "U+00E9" -> <<"%", "C", "3", "%", "A", "9">>
    [] OTHER -> <<c>>

RECURSIVE PercentEncodedAll(_)
PercentEncodedAll(q) ==
  IF q = <<>> THEN <<>>
  ELSE PercentEncoded(Head(q)) \o PercentEncodedAll(Tail(q))

\* C14: for every query q, fetchMovies requests the discovery URL when q is
\* empty or absent and otherwise the search URL followed by the
\* percent-encoding of q (a space becomes %20).
C14_QueryBuilding ==
  call.op = "endpoint"
  => IF call.arg = <<>> \/ call.arg = << <<>> >>
     THEN call.out = <<"https://api.themoviedb.org/3",
                       "/discover/movie?sort_by=popularity.desc">>
     ELSE call.out = <<"https://api.themoviedb.org/3", "/search/movie?query=">>
                     \o PercentEncodedAll(call.arg[1])

C14_Witness ==
  /\ call.op = "endpoint"
  /\ call.arg = << <<"a", " ", "&">> >>
  /\ call.out = <<"https://api.themoviedb.org/3", "/search/movie?query=",
                  "a", "%", "2", "0", "%", "2", "6">>

\* C16: with a provider that answers a query the same way every time, two
\* calls of fetchMovies for that query, the second after the first has
\* settled, leave movieList after the second as it was after the first.
C16_RefetchIdempotent ==
  (call.op = "provider" /\ call.calls = 2 /\ requests = EmptyBag)
  => movieList = call.first

C16_Witness ==
  /\ call.op = "provider"
  /\ call.calls = 2
  /\ requests = EmptyBag
  /\ call.first = <<2, 1>>
  /\ movieList = <<2, 1>>

\* value, in tenths, of a text of the form digits "." digit; -1 otherwise
DigitValue(c) ==
  IF c \in {Digit(d) : d \in 0 .. 9}
  THEN CHOOSE d \in 0 .. 9 : Digit(d) = c ELSE -1

RECURSIVE DigitsValue(_)
DigitsValue(t) ==
  IF t = <<>> THEN 0
  ELSE IF DigitValue(t[Len(t)]) < 0 \/ DigitsValue(SubSeq(t, 1, Len(t) - 1)) < 0
       THEN -1
       ELSE 10 * DigitsValue(SubSeq(t, 1, Len(t) - 1)) + DigitValue(t[Len(t)])

OneDecimalValue(t) ==
  IF Len(t) >= 3 /\ t[Len(t) - 1] = "."
  THEN DigitsValue(SubSeq(t, 1, Len(t) - 2) \o <<t[Len(t)]>>)
  ELSE -1

\* C17: the rating text is 'N/A' exactly when vote_average is absent, and for
\* every present vote_average from 0 to 10 (0 included) it is the value with
\* one decimal place.
C17_RatingText ==
  call.op = "rating"
  => /\ call.out = <<"N", "/", "A">> <=> call.arg = <<>>
     /\ call.arg # <<>>
        => LET tenths == OneDecimalValue(call.out)
           IN  /\ tenths >= 0
               /\ 100 * tenths - 50 <= call.arg[1]
               /\ call.arg[1] < 100 * tenths + 50

Quiescent ==
  /\ debouncedSearchTerm = searchTerm
  /\ requests = EmptyBag
  /\ isLoading = FALSE

\* C21: once the user has stopped typing, with time passing, timers firing,
\* due effects running and every request answered, the page eventually
\* reaches and stays in a state where debouncedSearchTerm equals searchTerm,
\* no fetch is in flight and isLoading is false.
C21_Quiescence == <>(call = Idle) => <>[]Quiescent

C21_Witness ==
  /\ call = Idle
  /\ Quiescent
  /\ searchTerm = "ab"
  /\ effectDep = <<"ab">>
  /\ timer = NoTimer
  /\ last.op \in {"fetchReject", "fetchResolve", "jsonReject", "jsonResolve"}
  /\ last.req.query # searchTerm

====
